---- MODULE Spec2Model ----
(***************************************************************************)
(* Model of zhmccli/_cmd_partition.py: the command handlers of the         *)
(* "zhmc partition" command group (create, update, list).                  *)
(*                                                                         *)
(* Python dictionaries are functions from keys to values.  An option that  *)
(* click passes as None is a key that is absent from the option function,  *)
(* so "options[name] is None" reads "name \notin DOMAIN options".          *)
(* Python floats are exact rationals [none, num, den] in lowest terms;     *)
(* the Python value None of a capacity or usage field is PyNone.           *)
(***************************************************************************)
EXTENDS Integers, Sequences, FiniteSets, TLC

VARIABLES
    pc,          \* "idle" | "done" | "listed" | "relisted": position of the CLI process
    cmd,         \* the command that ran last: "none" | "create" | "update" | "list"
    options,     \* the option set of that command, after original_options()
    outcome,     \* what the command reported: [kind, message, names]
    requests,    \* the requests the command sent to the HMC, in order, each
                 \* with the answer it got
    partitions,  \* cmd_partition_list: the partition property bags (p.properties)
    metrics,     \* cmd_partition_list: partition name -> 'partition-usage' metrics
    snapshot,    \* cmd_partition_list: the properties as the HMC returned them
    first_run,   \* cmd_partition_list: bags and outcome of the first run
    list_flags,  \* cmd_partition_list: the --ifl-usage and --cp-usage flags
    show_list,   \* cmd_partition_list: the columns handed to print_resources()
    hmc,         \* the properties of the partition on the HMC (empty: deleted)
    partition,   \* the properties of the local partition object of a handler
    image_fp,    \* cmd_partition_mount_iso: the file object of the ISO image
    job,         \* the HMC job of a start or stop request
    plan,        \* the requests the running handler has yet to send, in order
    before       \* the properties on the HMC when the command began

list_vars == <<partitions, metrics, snapshot, first_run, list_flags, show_list>>

lifecycle_vars == <<hmc, partition, image_fp, job, plan, before>>

vars == <<pc, cmd, options, outcome, requests, partitions, metrics, snapshot,
          first_run, list_flags, show_list, hmc, partition, image_fp, job,
          plan, before>>

(***************************************************************************)
(* Program constants                                                       *)
(***************************************************************************)
DEFAULT_IFL_PROCESSORS == 1
DEFAULT_INITIAL_MEMORY_MB == 1024
DEFAULT_MAXIMUM_MEMORY_MB == 1024
DEFAULT_PROCESSOR_MODE == "shared"
DEFAULT_PROCESSING_WEIGHT == 100
MIN_PROCESSING_WEIGHT == 1
MAX_PROCESSING_WEIGHT == 999

(***************************************************************************)
(* Bounds of the model                                                     *)
(***************************************************************************)
MaxPartitions == 2      \* partitions of the CPC in a listing
OtherWeight == 300      \* a second processing weight next to the default
TotalIfls == 10         \* 'processor-count-ifl' of the CPC
TotalCps == 4           \* 'processor-count-general-purpose' of the CPC
UsagePercent == 50      \* 'processor-usage' of a metrics sample

(***************************************************************************)
(* Dictionaries                                                            *)
(***************************************************************************)
EmptyDict == [k \in {} |-> ""]

SetItem(d, k, v) == [n \in (DOMAIN d) \cup {k} |-> IF n = k THEN v ELSE d[n]]

IsNone(opts, name) == name \notin DOMAIN opts

\* Python truth value of options[name] for a string option: None and '' are false
Truthy(opts, name) == name \in DOMAIN opts /\ opts[name] # ""

\* any([options[name] for name in names])
AnyOption(opts, names) == \E i \in 1..Len(names) : Truthy(opts, names[i])

\* [name for name in names if options[name] is None]
RECURSIVE MissingOptionNames(_, _)
MissingOptionNames(opts, names) ==
    IF names = <<>> THEN <<>>
    ELSE (IF IsNone(opts, Head(names)) THEN <<Head(names)>> ELSE <<>>)
         \o MissingOptionNames(opts, Tail(names))

(***************************************************************************)
(* Helpers of zhmccli/_helper.py                                           *)
(***************************************************************************)
\* The keyword names click passes, and the option names they stand for
OptionNameOf ==
    [ name |-> "name",
      ifl_processors |-> "ifl-processors",
      cp_processors |-> "cp-processors",
      processor_mode |-> "processor-mode",
      initial_memory |-> "initial-memory",
      maximum_memory |-> "maximum-memory",
      initial_ifl_processing_weight |-> "initial-ifl-processing-weight",
      initial_cp_processing_weight |-> "initial-cp-processing-weight",
      ssc_dns_servers |-> "ssc-dns-servers",
      boot_storage_hba |-> "boot-storage-hba",
      boot_storage_lun |-> "boot-storage-lun",
      boot_storage_wwpn |-> "boot-storage-wwpn",
      boot_network_nic |-> "boot-network-nic",
      boot_ftp_host |-> "boot-ftp-host",
      boot_ftp_username |-> "boot-ftp-username",
      boot_ftp_password |-> "boot-ftp-password",
      boot_ftp_insfile |-> "boot-ftp-insfile",
      boot_media_file |-> "boot-media-file",
      boot_iso |-> "boot-iso" ]

\* original_options(): every '_' of a keyword name becomes '-'
original_options(kwargs) ==
    [ n \in { OptionNameOf[k] : k \in DOMAIN kwargs } |->
        kwargs[CHOOSE k \in DOMAIN kwargs : OptionNameOf[k] = n] ]

\* options_to_properties(): one property per option that is not None and
\* that the name map does not mark as handled by the caller (None)
options_to_properties(opts, name_map) ==
    [ n \in { o \in DOMAIN opts : o \notin name_map } |-> opts[n] ]

\* raise_click_exception(): the handler ends with an error
UserError(message, names) ==
    [kind |-> "user_error", message |-> message, names |-> names]

\* raise_click_exception(exc, error_format): the error of the management
\* client is reported with its kind and its message
RemoteError(exc) ==
    [kind |-> "remote_error", message |-> exc, names |-> <<>>]

Completed(message) == [kind |-> "ok", message |-> message, names |-> <<>>]

\* what the HMC answers to a request: success or a zhmcclient.Error
Replies == {"ok", "HTTPError"}

\* a request of the management client and the answer it got
Request(op, properties, reply) ==
    [op |-> op, properties |-> properties, result |-> reply]

NoOutcome == [kind |-> "none", message |-> "", names |-> <<>>]

\* value.split(','): a string is a sequence of tokens, "," the separator
RECURSIVE Split(_)
Split(s) ==
    IF \A i \in 1..Len(s) : s[i] # "," THEN <<s>>
    ELSE LET i == CHOOSE j \in 1..Len(s) :
                     s[j] = "," /\ \A k \in 1..(j - 1) : s[k] # ","
         IN  <<SubSeq(s, 1, i - 1)>> \o Split(SubSeq(s, i + 1, Len(s)))

(***************************************************************************)
(* The adapters attached to the partition on the HMC: name -> URI          *)
(***************************************************************************)
AttachedHbas == [hba1 |-> "/api/partitions/1/hbas/1"]

AttachedNics == [nic1 |-> "/api/partitions/1/nics/1"]

(***************************************************************************)
(* cmd_partition_create                                                    *)
(***************************************************************************)
create_name_map ==
    {"boot-ftp-host", "boot-ftp-username", "boot-ftp-password",
     "boot-ftp-insfile", "boot-media-file"}

required_ftp_option_names ==
    <<"boot-ftp-host", "boot-ftp-username", "boot-ftp-password",
      "boot-ftp-insfile">>

required_storage_option_names ==
    <<"boot-storage-hba", "boot-storage-lun", "boot-storage-wwpn">>

FtpProperties(properties, opts) ==
    SetItem(SetItem(SetItem(SetItem(SetItem(properties,
        "boot-device", "ftp"),
        "boot-ftp-host", opts["boot-ftp-host"]),
        "boot-ftp-username", opts["boot-ftp-username"]),
        "boot-ftp-password", opts["boot-ftp-password"]),
        "boot-ftp-insfile", opts["boot-ftp-insfile"])

MediaProperties(properties, opts) ==
    SetItem(SetItem(properties,
        "boot-device", "removable-media"),
        "boot-removable-media", opts["boot-media-file"])

\* the default applied whenever 'ifl-processors' is not in the properties
DefaultProcessorsWithoutCpTest(properties) ==
    IF "ifl-processors" \notin DOMAIN properties
    THEN SetItem(properties, "ifl-processors", DEFAULT_IFL_PROCESSORS)
    ELSE properties

\* the default for the number of processors
DefaultProcessors(properties) ==
    IF "ifl-processors" \notin DOMAIN properties
       /\ "cp-processors" \notin DOMAIN properties
    THEN SetItem(properties, "ifl-processors", DEFAULT_IFL_PROCESSORS)
    ELSE properties

DnsServers(properties, opts) ==
    IF ~IsNone(opts, "ssc-dns-servers")
    THEN SetItem(properties, "ssc-dns-servers", Split(opts["ssc-dns-servers"]))
    ELSE properties

\* the boot options of create: an error, or the properties with the boot device
CreateBoot(opts, properties) ==
    IF AnyOption(opts, required_ftp_option_names)
    THEN LET missing_option_names ==
                 MissingOptionNames(opts, required_ftp_option_names)
         IN  IF missing_option_names # <<>>
             THEN [error |-> UserError("Boot from FTP server specified, but misses the following options",
                                       missing_option_names),
                   properties |-> EmptyDict]
             ELSE [error |-> NoOutcome, properties |-> FtpProperties(properties, opts)]
    ELSE IF ~IsNone(opts, "boot-media-file")
    THEN [error |-> NoOutcome, properties |-> MediaProperties(properties, opts)]
    ELSE [error |-> NoOutcome, properties |-> properties]

\* the handler sending the create request before it reports a user-input error
cmd_partition_create_sending_first(kwargs, reply) ==
    LET opts == original_options(kwargs)
        boot == CreateBoot(opts, options_to_properties(opts, create_name_map))
        properties == DnsServers(DefaultProcessors(boot.properties), opts)
    IN  [outcome |-> IF boot.error.kind = "user_error" THEN boot.error
                     ELSE IF reply = "ok"
                     THEN Completed("New partition has been created.")
                     ELSE RemoteError(reply),
         requests |-> << Request("create", properties, reply) >>]

\* the whole handler: [outcome, requests]
cmd_partition_create(kwargs, reply) ==
    LET opts == original_options(kwargs)
        boot == CreateBoot(opts, options_to_properties(opts, create_name_map))
        properties == DnsServers(DefaultProcessors(boot.properties), opts)
    IN  IF boot.error.kind = "user_error"
        THEN [outcome |-> boot.error, requests |-> <<>>]
        ELSE [outcome |-> IF reply = "ok"
                          THEN Completed("New partition has been created.")
                          ELSE RemoteError(reply),
              requests |-> << Request("create", properties, reply) >>]

(***************************************************************************)
(* cmd_partition_update                                                    *)
(***************************************************************************)
\* the name map without the entry of 'boot-media-file'
update_name_map_without_media ==
    {"boot-storage-hba", "boot-storage-lun", "boot-storage-wwpn",
     "boot-network-nic", "boot-ftp-host", "boot-ftp-username",
     "boot-ftp-password", "boot-ftp-insfile", "boot-iso"}

update_name_map ==
    {"boot-storage-hba", "boot-storage-lun", "boot-storage-wwpn",
     "boot-network-nic", "boot-ftp-host", "boot-ftp-username",
     "boot-ftp-password", "boot-ftp-insfile", "boot-media-file", "boot-iso"}

StorageProperties(properties, opts) ==
    SetItem(SetItem(SetItem(SetItem(properties,
        "boot-device", "storage-adapter"),
        "boot-storage-device", AttachedHbas[opts["boot-storage-hba"]]),
        "boot-logical-unit-number", opts["boot-storage-lun"]),
        "boot-world-wide-port-name", opts["boot-storage-wwpn"])

NetworkProperties(properties, opts) ==
    SetItem(SetItem(properties,
        "boot-device", "network-adapter"),
        "boot-network-device", AttachedNics[opts["boot-network-nic"]])

IsoProperties(properties) == SetItem(properties, "boot-device", "iso-image")

\* the boot options of update: an error, or the properties with the boot device
UpdateBoot(opts, properties) ==
    IF AnyOption(opts, required_storage_option_names)
    THEN LET missing_option_names ==
                 MissingOptionNames(opts, required_storage_option_names)
         IN  IF missing_option_names # <<>>
             THEN [error |-> UserError("Boot from FCP LUN specified, but misses the following options",
                                       missing_option_names),
                   properties |-> EmptyDict]
             ELSE IF opts["boot-storage-hba"] \notin DOMAIN AttachedHbas
             THEN [error |-> UserError("Could not find HBA",
                                       <<opts["boot-storage-hba"]>>),
                   properties |-> EmptyDict]
             ELSE [error |-> NoOutcome,
                   properties |-> StorageProperties(properties, opts)]
    ELSE IF ~IsNone(opts, "boot-network-nic")
    THEN IF opts["boot-network-nic"] \notin DOMAIN AttachedNics
         THEN [error |-> UserError("Could not find NIC",
                                   <<opts["boot-network-nic"]>>),
               properties |-> EmptyDict]
         ELSE [error |-> NoOutcome,
               properties |-> NetworkProperties(properties, opts)]
    ELSE IF AnyOption(opts, required_ftp_option_names)
    THEN LET missing_option_names ==
                 MissingOptionNames(opts, required_ftp_option_names)
         IN  IF missing_option_names # <<>>
             THEN [error |-> UserError("Boot from FTP server specified, but misses the following options",
                                       missing_option_names),
                   properties |-> EmptyDict]
             ELSE [error |-> NoOutcome,
                   properties |-> FtpProperties(properties, opts)]
    ELSE IF ~IsNone(opts, "boot-media-file")
    THEN [error |-> NoOutcome, properties |-> MediaProperties(properties, opts)]
    ELSE IF ~IsNone(opts, "boot-iso")
    THEN [error |-> NoOutcome, properties |-> IsoProperties(properties)]
    ELSE [error |-> NoOutcome, properties |-> properties]

\* the handler without the test of an empty property set
cmd_partition_update_without_empty_test(kwargs, reply) ==
    LET opts == original_options(kwargs)
        boot == UpdateBoot(opts, options_to_properties(opts, update_name_map))
        properties == DnsServers(boot.properties, opts)
    IN  IF boot.error.kind = "user_error"
        THEN [outcome |-> boot.error, requests |-> <<>>]
        ELSE [outcome |-> IF reply = "ok"
                          THEN Completed("Partition has been updated.")
                          ELSE RemoteError(reply),
              requests |-> << Request("update_properties", properties, reply) >>]

\* the whole handler: [outcome, requests]
cmd_partition_update(kwargs, reply) ==
    LET opts == original_options(kwargs)
        boot == UpdateBoot(opts, options_to_properties(opts, update_name_map))
        properties == DnsServers(boot.properties, opts)
    IN  IF boot.error.kind = "user_error"
        THEN [outcome |-> boot.error, requests |-> <<>>]
        ELSE IF DOMAIN properties = {}
        THEN [outcome |-> [kind |-> "noop",
                           message |-> "No properties specified for updating partition.",
                           names |-> <<>>],
              requests |-> <<>>]
        ELSE [outcome |-> IF reply = "ok"
                          THEN Completed("Partition has been updated.")
                          ELSE RemoteError(reply),
              requests |-> << Request("update_properties", properties, reply) >>]

(***************************************************************************)
(* The option sets a user can give                                         *)
(***************************************************************************)
Unset == "<unset>"

StringChoices == {Unset, "", "v"}

HbaChoices == {Unset, "", "hba1", "hba2"}

NicChoices == {Unset, "nic1", "nic2"}

DnsChoices == {<<Unset>>, <<"1.2.3.4", ",", "5.6.7.8">>}

\* the keywords click passes with a value other than None
Given(kw, unset) == [k \in {j \in DOMAIN kw : kw[j] # unset} |-> kw[k]]

CreateStringKeywords ==
    {"boot_ftp_host", "boot_ftp_username", "boot_ftp_password",
     "boot_ftp_insfile", "boot_media_file"}

UpdateStringKeywords ==
    {"boot_storage_lun", "boot_storage_wwpn", "boot_iso"} \cup CreateStringKeywords

\* the options of create that click always passes: --name is required and
\* the others have a default
CreateDefaults ==
    [ name |-> "p1",
      processor_mode |-> DEFAULT_PROCESSOR_MODE,
      initial_memory |-> DEFAULT_INITIAL_MEMORY_MB,
      maximum_memory |-> DEFAULT_MAXIMUM_MEMORY_MB,
      initial_cp_processing_weight |-> DEFAULT_PROCESSING_WEIGHT,
      initial_ifl_processing_weight |-> DEFAULT_PROCESSING_WEIGHT ]

\* an integer option that is not given (click passes None)
NotGiven == -1

ProcessorChoices == {NotGiven, 0, 2}

(***************************************************************************)
(* Python numbers: a float is an exact rational in lowest terms            *)
(***************************************************************************)
PyNone == [none |-> TRUE, num |-> 0, den |-> 1]

RECURSIVE Gcd(_, _)
Gcd(a, b) == IF b = 0 THEN a ELSE Gcd(b, a % b)

\* the rational n/d, d > 0, in lowest terms
PyFloat(n, d) ==
    LET g == Gcd(n, d)
    IN  IF g = 0 THEN [none |-> FALSE, num |-> 0, den |-> 1]
        ELSE [none |-> FALSE, num |-> n \div g, den |-> d \div g]

\* x + y of two floats
FloatAdd(x, y) == PyFloat(x.num * y.den + y.num * x.den, x.den * y.den)

\* x * y of two floats
FloatMul(x, y) == PyFloat(x.num * y.num, x.den * y.den)

(***************************************************************************)
(* cmd_partition_list with --ifl-usage or --cp-usage                       *)
(***************************************************************************)
\* the sum with the test of the processor mode left out
RECURSIVE TotalWeightOfActive(_, _)
TotalWeightOfActive(parts, weight_name) ==
    IF parts = <<>> THEN 0
    ELSE LET p == Head(parts)
         IN  (IF p["status"] = "active" THEN p[weight_name] ELSE 0)
             + TotalWeightOfActive(Tail(parts), weight_name)

\* the sum of the weights of the active partitions in shared mode, accumulated
\* over the list in its order
RECURSIVE TotalWeight(_, _)
TotalWeight(parts, weight_name) ==
    IF parts = <<>> THEN 0
    ELSE LET p == Head(parts)
         IN  (IF p["processor-mode"] = "shared" /\ p["status"] = "active"
              THEN p[weight_name] ELSE 0)
             + TotalWeight(Tail(parts), weight_name)

\* the capacity with the CPC total in place of the partition's processors
CapacityDedicatedTotal(p, total, total_weight, weight_name, processors_name) ==
    IF p["status"] # "active"
    THEN [error |-> "", value |-> PyNone]
    ELSE IF p["processor-mode"] = "shared"
    THEN IF total_weight = 0
         THEN [error |-> "ZeroDivisionError", value |-> PyNone]
         ELSE [error |-> "", value |-> PyFloat(total * p[weight_name], total_weight)]
    ELSE [error |-> "", value |-> PyFloat(total, 1)]

\* the capacity with the weighted division for every active partition
CapacityAnyMode(p, total, total_weight, weight_name, processors_name) ==
    IF p["status"] # "active"
    THEN [error |-> "", value |-> PyNone]
    ELSE IF total_weight = 0
    THEN [error |-> "ZeroDivisionError", value |-> PyNone]
    ELSE [error |-> "", value |-> PyFloat(total * p[weight_name], total_weight)]

\* the capacity with the weighted division for every partition in shared
\* mode, active or not
CapacitySharedAnyStatus(p, total, total_weight, weight_name, processors_name) ==
    IF p["processor-mode"] = "shared"
    THEN IF total_weight = 0
         THEN [error |-> "ZeroDivisionError", value |-> PyNone]
         ELSE [error |-> "", value |-> PyFloat(total * p[weight_name], total_weight)]
    ELSE IF p["status"] # "active"
    THEN [error |-> "", value |-> PyNone]
    ELSE [error |-> "", value |-> PyFloat(p[processors_name], 1)]

\* the effective processors of one partition: a float, None, or the
\* ZeroDivisionError of the division
Capacity(p, total, total_weight, weight_name, processors_name) ==
    IF p["status"] # "active"
    THEN [error |-> "", value |-> PyNone]
    ELSE IF p["processor-mode"] = "shared"
    THEN IF total_weight = 0
         THEN [error |-> "ZeroDivisionError", value |-> PyNone]
         ELSE [error |-> "", value |-> PyFloat(total * p[weight_name], total_weight)]
    ELSE [error |-> "", value |-> PyFloat(p[processors_name], 1)]

\* the properties of the capacity loop with '+=' for the weight
WithCapacityAdding(p, eff, capacity_name, count_name, processors_name, short_weight_name, weight_name) ==
    SetItem(SetItem(SetItem(p,
        capacity_name, eff),
        count_name, p[processors_name]),
        short_weight_name,
        (IF short_weight_name \in DOMAIN p THEN p[short_weight_name] ELSE 0)
            + p[weight_name])

\* the three properties the capacity loop sets on one partition
WithCapacity(p, eff, capacity_name, count_name, processors_name, short_weight_name, weight_name) ==
    SetItem(SetItem(SetItem(p,
        capacity_name, eff),
        count_name, p[processors_name]),
        short_weight_name, p[weight_name])

\* the capacity loop of one processor kind over the list: it stops at the
\* first partition whose division fails, the partitions before it are set
RECURSIVE CapacityLoop(_, _, _, _, _, _, _, _, _)
CapacityLoop(parts, i, total, total_weight, capacity_name, count_name, processors_name, short_weight_name, weight_name) ==
    IF i > Len(parts) THEN [error |-> "", parts |-> parts]
    ELSE LET eff == Capacity(parts[i], total, total_weight, weight_name,
                             processors_name)
         IN  IF eff.error # "" THEN [error |-> eff.error, parts |-> parts]
             ELSE CapacityLoop(
                      [parts EXCEPT ![i] =
                          WithCapacity(parts[i], eff.value, capacity_name,
                                       count_name, processors_name,
                                       short_weight_name, weight_name)],
                      i + 1, total, total_weight, capacity_name, count_name,
                      processors_name, short_weight_name, weight_name)

IflPass(parts, total_ifls) ==
    CapacityLoop(parts, 1, total_ifls,
                 TotalWeight(parts, "initial-ifl-processing-weight"),
                 "ifl-capacity", "ifls", "ifl-processors", "ifl-weight",
                 "initial-ifl-processing-weight")

CpPass(parts, total_cps) ==
    CapacityLoop(parts, 1, total_cps,
                 TotalWeight(parts, "initial-cp-processing-weight"),
                 "cp-capacity", "cps", "cp-processors", "cp-weight",
                 "initial-cp-processing-weight")

\* the usage of one partition: None + None is a TypeError
Usage(p, partition_metrics) ==
    LET p_metrics == IF p["name"] \in DOMAIN partition_metrics
                     THEN partition_metrics[p["name"]] ELSE EmptyDict
    IN  IF DOMAIN p_metrics # {}
        THEN IF p["ifl-capacity"].none \/ p["cp-capacity"].none
             THEN [error |-> "TypeError", usage |-> PyNone, used |-> PyNone]
             ELSE [error |-> "",
                   usage |-> PyFloat(p_metrics["processor-usage"], 1),
                   used |-> FloatMul(PyFloat(p_metrics["processor-usage"], 100),
                                     FloatAdd(p["ifl-capacity"], p["cp-capacity"]))]
        ELSE [error |-> "", usage |-> PyNone, used |-> PyNone]

RECURSIVE UsageLoop(_, _, _)
UsageLoop(parts, i, partition_metrics) ==
    IF i > Len(parts) THEN [error |-> "", parts |-> parts]
    ELSE LET u == Usage(parts[i], partition_metrics)
         IN  IF u.error # "" THEN [error |-> u.error, parts |-> parts]
             ELSE UsageLoop(
                      [parts EXCEPT ![i] =
                          SetItem(SetItem(parts[i],
                              "processor-usage", u.usage),
                              "processors-used", u.used)],
                      i + 1, partition_metrics)

\* p.pull_full_properties(): the properties of the HMC replace those of the bag
PullFullProperties(parts, server) ==
    [i \in 1..Len(parts) |->
        [n \in (DOMAIN parts[i]) \cup (DOMAIN server[i]) |->
            IF n \in DOMAIN server[i] THEN server[i][n] ELSE parts[i][n]]]

Crashed(error) == [kind |-> "crash", message |-> error, names |-> <<>>]

\* the columns print_resources() shows
ShowList(flags) ==
    <<"name", "status">>
    \o (IF flags.ifl_usage \/ flags.cp_usage THEN <<"processor-mode">> ELSE <<>>)
    \o (IF flags.ifl_usage THEN <<"ifls", "ifl-weight", "ifl-capacity">> ELSE <<>>)
    \o (IF flags.cp_usage THEN <<"cps", "cp-weight", "cp-capacity">> ELSE <<>>)
    \o (IF flags.ifl_usage \/ flags.cp_usage
        THEN <<"processor-usage", "processors-used">> ELSE <<>>)

\* the usage part of the handler: [outcome, partitions]
UsageColumns(parts, server, partition_metrics, total_ifls, total_cps) ==
    LET pulled == PullFullProperties(parts, server)
        ifl == IflPass(pulled, total_ifls)
    IN  IF ifl.error # ""
        THEN [outcome |-> Crashed(ifl.error), partitions |-> ifl.parts]
        ELSE LET cp == CpPass(ifl.parts, total_cps)
             IN  IF cp.error # ""
                 THEN [outcome |-> Crashed(cp.error), partitions |-> cp.parts]
                 ELSE LET usage == UsageLoop(cp.parts, 1, partition_metrics)
                      IN  IF usage.error # ""
                          THEN [outcome |-> Crashed(usage.error),
                                partitions |-> usage.parts]
                          ELSE [outcome |-> Completed("partitions listed"),
                                partitions |-> usage.parts]

\* the whole handler: [outcome, partitions]
cmd_partition_list(parts, server, partition_metrics, total_ifls, total_cps, flags) ==
    IF flags.ifl_usage \/ flags.cp_usage
    THEN UsageColumns(parts, server, partition_metrics, total_ifls, total_cps)
    ELSE [outcome |-> Completed("partitions listed"), partitions |-> parts]

(***************************************************************************)
(* The partitions and metrics the HMC can return                           *)
(***************************************************************************)
PartitionNames == <<"p1", "p2", "p3", "p4", "p5">>

Statuses == {"active", "stopped", "paused"}

ProcessorModes == {"shared", "dedicated"}

\* processing weights are integers in MIN_PROCESSING_WEIGHT..MAX_PROCESSING_WEIGHT
WeightChoices ==
    {w \in {DEFAULT_PROCESSING_WEIGHT, OtherWeight} :
        w >= MIN_PROCESSING_WEIGHT /\ w <= MAX_PROCESSING_WEIGHT}

\* the processors of the i-th partition: 4 IFLs and no CP, 3 and 1, 2 and 2, ...
IflProcessorsOf(i) == IF i < 5 THEN 5 - i ELSE 0

CpProcessorsOf(i) == i - 1

ServerPartition(i, status, mode, ifl_weight, cp_weight) ==
    ("name" :> PartitionNames[i]) @@ ("status" :> status)
    @@ ("processor-mode" :> mode)
    @@ ("ifl-processors" :> IflProcessorsOf(i))
    @@ ("cp-processors" :> CpProcessorsOf(i))
    @@ ("initial-ifl-processing-weight" :> ifl_weight)
    @@ ("initial-cp-processing-weight" :> cp_weight)

\* the IFL and CP weights of a partition: equal, or either one the larger
WeightPairs ==
    { w \in WeightChoices \X WeightChoices :
        w[1] = DEFAULT_PROCESSING_WEIGHT \/ w[2] = DEFAULT_PROCESSING_WEIGHT }

PartitionChoices(i) ==
    { ServerPartition(i, st, m, w[1], w[2]) :
        st \in Statuses, m \in ProcessorModes, w \in WeightPairs }

\* the partition lists of the CPC, of every length up to MaxPartitions
RECURSIVE PartitionLists(_)
PartitionLists(n) ==
    IF n = 0 THEN {<<>>}
    ELSE LET shorter == PartitionLists(n - 1)
         IN  shorter \cup
             { Append(l, p) : l \in {s \in shorter : Len(s) = n - 1},
                              p \in PartitionChoices(n) }

\* the metrics service: a sample for any subset of the listed partitions
MetricsChoices(parts) ==
    { [n \in names |-> ("processor-usage" :> UsagePercent)] :
        names \in SUBSET { parts[i]["name"] : i \in 1..Len(parts) } }

FlagChoices == [ifl_usage : BOOLEAN, cp_usage : BOOLEAN]

NoRun == [outcome |-> NoOutcome, partitions |-> <<>>]

(***************************************************************************)
(* The partition on the HMC, as the lifecycle handlers see it              *)
(***************************************************************************)
\* the properties of the partition the lifecycle handlers read and change;
\* 'boot-iso-image-name' is null (absent) when no image is mounted
ServerState(boot_device, image_name, status) ==
    ("boot-device" :> boot_device) @@ ("status" :> status)
    @@ Given([n \in {"boot-iso-image-name"} |-> image_name], Unset)

BootDevices == {"none", "storage-adapter", "iso-image"}

ImageNames == {Unset, "", "old.iso"}

\* the states the partition can be in when the first command runs
InitialServers ==
    { ServerState(d, i, st) : d \in BootDevices, i \in ImageNames,
                              st \in {"stopped", "active"} }

\* what a request that the HMC answers with success does to the partition
Effect(srv, request) ==
    CASE request.op = "update_properties" -> request.properties @@ srv
      [] request.op = "mount_iso_image" ->
             SetItem(srv, "boot-iso-image-name", request.properties["image-name"])
      [] request.op = "unmount_iso_image" ->
             [n \in (DOMAIN srv) \ {"boot-iso-image-name"} |-> srv[n]]
      [] request.op = "delete" -> EmptyDict
      [] OTHER -> srv

\* find_partition(): the partition is looked up by name
find_partition(srv) ==
    IF DOMAIN srv = {} THEN RemoteError("NotFound") ELSE NoOutcome

(***************************************************************************)
(* cmd_partition_mount_iso                                                 *)
(***************************************************************************)
\* a path is the sequence of its components
ImageFiles == { <<"images", "new.iso">>, <<"images", "absent.iso">> }

\* the files open() finds
ExistingFiles == { <<"images", "new.iso">> }

\* os.path.split(path): head and last component
PathSplit(path) == << SubSeq(path, 1, Len(path) - 1), path[Len(path)] >>

\* if options['boot'], other than the code has it: always
BootAlways(opts) == TRUE

\* if options['boot']
BootRequested(opts) == opts["boot"]

\* the requests other than the code has them: the boot-device update first
mount_iso_requests_boot_first(opts) ==
    (IF BootRequested(opts)
     THEN << [op |-> "update_properties",
              properties |-> ("boot-device" :> "iso-image")] >>
     ELSE <<>>)
    \o << [op |-> "mount_iso_image",
           properties |-> ("image-name" :> PathSplit(opts["imagefile"])[2])
                          @@ ("ins-file-name" :> opts["imageinsfile"])] >>

\* the requests of the handler after open(), in the order of the code
mount_iso_requests(opts) ==
    << [op |-> "mount_iso_image",
        properties |-> ("image-name" :> PathSplit(opts["imagefile"])[2])
                       @@ ("ins-file-name" :> opts["imageinsfile"])] >>
    \o (IF BootRequested(opts)
        THEN << [op |-> "update_properties",
                 properties |-> ("boot-device" :> "iso-image")] >>
        ELSE <<>>)

\* image_fp is never closed by the handler: when the handler is left, the
\* file object is closed only if the interpreter has finalised it by then
HandleAtReturn(fp) == IF fp = "open" THEN {"open", "closed"} ELSE {fp}

(***************************************************************************)
(* cmd_partition_unmount_iso                                               *)
(***************************************************************************)
\* if image_name, other than the code has it: if image_name is not None
ImageNotNone(properties) == ~IsNone(properties, "boot-iso-image-name")

\* if image_name
ImageMounted(properties) == Truthy(properties, "boot-iso-image-name")

\* if boot_device == 'iso-image'
BootResetNeeded(properties) == properties["boot-device"] = "iso-image"

reset_boot_device ==
    [op |-> "update_properties", properties |-> ("boot-device" :> "none")]

unmount_iso_image == [op |-> "unmount_iso_image", properties |-> EmptyDict]

\* the requests other than the code has them: the unmount before the reset
unmount_iso_requests_unmount_first(properties) ==
    IF ~ImageMounted(properties) THEN <<>>
    ELSE << unmount_iso_image >>
         \o (IF BootResetNeeded(properties) THEN << reset_boot_device >> ELSE <<>>)

\* the requests of the handler after pull_full_properties(), in the order
\* of the code
unmount_iso_requests(properties) ==
    IF ~ImageMounted(properties) THEN <<>>
    ELSE (IF BootResetNeeded(properties) THEN << reset_boot_device >> ELSE <<>>)
         \o << unmount_iso_image >>

(***************************************************************************)
(* How a handler ends                                                      *)
(***************************************************************************)
\* the commands whose requests are not inside a try statement
UnguardedCommands == {"mount_iso", "unmount_iso"}

\* the message after the last request
SuccessMessage(c) ==
    CASE c = "start" -> "Partition has been started."
      [] c = "stop" -> "Partition has been stopped."
      [] c = "delete" -> "Partition has been deleted."
      [] c = "show" -> "print_properties"
      [] c = "mount_iso" -> "ISO image has been mounted to Partition."
      [] c = "unmount_iso" -> "ISO image has been unmounted from Partition."

\* a zhmcclient.Error of a request passed over: the handler goes on to its end
RequestFailureIgnored(c, exc) == Completed(SuccessMessage(c))

\* a zhmcclient.Error raised by a request of the command
RequestFailure(c, exc) ==
    IF c \in UnguardedCommands THEN Crashed(exc) ELSE RemoteError(exc)

\* partition.start(wait_for_completion=True), other than the code has it
no_wait_for_completion == FALSE

\* partition.start(wait_for_completion=True)
wait_for_completion == TRUE

(***************************************************************************)
(* The state machine: one command per process invocation                   *)
(***************************************************************************)
Idle ==
    /\ pc = "idle"
    /\ cmd = "none"
    /\ options = EmptyDict
    /\ outcome = NoOutcome
    /\ requests = <<>>
    /\ partitions = <<>>
    /\ metrics = EmptyDict
    /\ snapshot = <<>>
    /\ first_run = NoRun
    /\ list_flags = [ifl_usage |-> FALSE, cp_usage |-> FALSE]
    /\ show_list = <<>>
    /\ partition = EmptyDict
    /\ image_fp = "none"
    /\ job = "none"
    /\ plan = <<>>
    /\ before = EmptyDict

Init ==
    /\ Idle
    /\ hmc = ServerState("none", "old.iso", "stopped")

PartitionCreate ==
    /\ pc = "idle"
    /\ \E strs \in [CreateStringKeywords -> StringChoices],
          dns \in DnsChoices, ifl \in ProcessorChoices, cp \in ProcessorChoices,
          reply \in Replies :
          LET kwargs == Given(strs, Unset)
                        @@ Given([ssc_dns_servers |-> dns], <<Unset>>)
                        @@ Given([ifl_processors |-> ifl, cp_processors |-> cp], NotGiven)
                        @@ CreateDefaults
              result == cmd_partition_create(kwargs, reply)
          IN  /\ options' = original_options(kwargs)
              /\ outcome' = result.outcome
              /\ requests' = result.requests
    /\ pc' = "done"
    /\ cmd' = "create"
    /\ UNCHANGED <<list_vars, lifecycle_vars>>

PartitionUpdate ==
    /\ pc = "idle"
    /\ \E strs \in [UpdateStringKeywords -> StringChoices],
          hba \in HbaChoices, nic \in NicChoices, dns \in DnsChoices,
          reply \in Replies :
          LET kwargs == Given(strs, Unset)
                        @@ Given([boot_storage_hba |-> hba,
                                  boot_network_nic |-> nic], Unset)
                        @@ Given([ssc_dns_servers |-> dns], <<Unset>>)
              result == cmd_partition_update(kwargs, reply)
          IN  /\ options' = original_options(kwargs)
              /\ outcome' = result.outcome
              /\ requests' = result.requests
    /\ pc' = "done"
    /\ cmd' = "update"
    /\ UNCHANGED <<list_vars, lifecycle_vars>>

\* zhmc partition list: the bags are made by cpc.partitions.list()
PartitionList ==
    /\ pc = "idle"
    /\ \E server \in PartitionLists(MaxPartitions), flags \in FlagChoices :
       \E samples \in MetricsChoices(server) :
          LET listed == [i \in 1..Len(server) |->
                            ("name" :> server[i]["name"])
                            @@ ("status" :> server[i]["status"])]
              result == cmd_partition_list(listed, server, samples,
                                           TotalIfls, TotalCps, flags)
          IN  /\ snapshot' = server
              /\ metrics' = samples
              /\ list_flags' = flags
              /\ show_list' = ShowList(flags)
              /\ partitions' = result.partitions
              /\ outcome' = result.outcome
              /\ first_run' = result
    /\ pc' = "listed"
    /\ cmd' = "list"
    /\ UNCHANGED <<options, requests, lifecycle_vars>>

\* the handler once more, on the same HMC state and the bags of the first run
PartitionListAgain ==
    /\ pc = "listed"
    /\ LET result == cmd_partition_list(partitions, snapshot, metrics,
                                        TotalIfls, TotalCps, list_flags)
       IN  /\ partitions' = result.partitions
           /\ outcome' = result.outcome
    /\ pc' = "relisted"
    /\ show_list' = ShowList(list_flags)
    /\ UNCHANGED <<cmd, options, requests, metrics, snapshot, first_run, list_flags>>
    /\ UNCHANGED lifecycle_vars

\* the process ends; the next invocation starts afresh
Exit ==
    /\ pc \in {"done", "listed", "relisted"}
    /\ pc' = "idle"
    /\ cmd' = "none"
    /\ options' = EmptyDict
    /\ outcome' = NoOutcome
    /\ requests' = <<>>
    /\ partitions' = <<>>
    /\ metrics' = EmptyDict
    /\ snapshot' = <<>>
    /\ first_run' = NoRun
    /\ list_flags' = [ifl_usage |-> FALSE, cp_usage |-> FALSE]
    /\ show_list' = <<>>
    /\ partition' = EmptyDict
    /\ image_fp' = "none"
    /\ job' = "none"
    /\ plan' = <<>>
    /\ before' = EmptyDict
    /\ UNCHANGED hmc

Next ==
    \/ PartitionCreate
    \/ PartitionUpdate
    \/ PartitionList
    \/ PartitionListAgain
    \/ Exit

Spec == Init /\ [][Next]_vars

(***************************************************************************)
(* The lifecycle commands on one partition, which keeps its state on the   *)
(* HMC from one command to the next                                        *)
(***************************************************************************)
InitLifecycle ==
    /\ Idle
    /\ hmc \in InitialServers

\* a handler begins: find_partition(), then the requests it is to send
Begin(c, opts, fp, planned) ==
    /\ cmd' = c
    /\ options' = opts
    /\ before' = hmc
    /\ IF find_partition(hmc).kind = "none"
       THEN /\ pc' = "running"
            /\ outcome' = NoOutcome
            /\ plan' = planned
            /\ image_fp' = fp
       ELSE /\ pc' = "done"
            /\ outcome' = find_partition(hmc)
            /\ plan' = <<>>
            /\ image_fp' = "none"
    /\ UNCHANGED <<requests, hmc, partition, job, list_vars>>

PartitionShow ==
    /\ pc = "idle"
    /\ Begin("show", EmptyDict, "none",
             << [op |-> "pull_full_properties", properties |-> EmptyDict] >>)

PartitionStart ==
    /\ pc = "idle"
    /\ Begin("start", EmptyDict, "none",
             << [op |-> "start", properties |-> EmptyDict] >>)

PartitionStop ==
    /\ pc = "idle"
    /\ Begin("stop", EmptyDict, "none",
             << [op |-> "stop", properties |-> EmptyDict] >>)

PartitionDelete ==
    /\ pc = "idle"
    /\ Begin("delete", EmptyDict, "none",
             << [op |-> "delete", properties |-> EmptyDict] >>)

\* zhmc partition mountiso: the image file is opened, then the requests
PartitionMountIso ==
    /\ pc = "idle"
    /\ \E image_file \in ImageFiles, boot \in BOOLEAN :
        LET opts == ("imagefile" :> image_file) @@ ("imageinsfile" :> "/boot.ins")
                    @@ ("boot" :> boot)
        IN  IF image_file \in ExistingFiles \/ find_partition(hmc).kind # "none"
            THEN Begin("mount_iso", opts, "open", mount_iso_requests(opts))
            ELSE /\ pc' = "done"
                 /\ cmd' = "mount_iso"
                 /\ options' = opts
                 /\ before' = hmc
                 /\ outcome' = Crashed("FileNotFoundError")
                 /\ UNCHANGED <<requests, hmc, partition, image_fp, job, plan,
                                list_vars>>

\* zhmc partition unmountiso: the handler begins with pull_full_properties()
PartitionUnmountIso ==
    /\ pc = "idle"
    /\ Begin("unmount_iso", EmptyDict, "none",
             << [op |-> "pull_full_properties", properties |-> EmptyDict] >>)

\* the boot options of update that do not need an adapter of the partition
UpdateBootKeywords == {"boot_media_file", "boot_iso"}

\* zhmc partition update with --boot-media-file and --boot-iso given or not:
\* find_partition(), then the whole handler, on the partition of the HMC
PartitionUpdateBoot ==
    /\ pc = "idle"
    /\ \E strs \in [UpdateBootKeywords -> {Unset, "v"}], reply \in Replies :
          LET kwargs == Given(strs, Unset)
              result == IF find_partition(hmc).kind = "none"
                        THEN cmd_partition_update(kwargs, reply)
                        ELSE [outcome |-> find_partition(hmc), requests |-> <<>>]
          IN  /\ options' = original_options(kwargs)
              /\ outcome' = result.outcome
              /\ requests' = result.requests
              /\ hmc' = IF result.requests # <<>> /\ reply = "ok"
                        THEN Effect(hmc, result.requests[1])
                        ELSE hmc
    /\ pc' = "done"
    /\ cmd' = "update"
    /\ before' = hmc
    /\ UNCHANGED <<partition, image_fp, job, plan, list_vars>>

\* the handler sends its next request and gets the answer of the HMC
IssueRequest ==
    /\ pc = "running"
    /\ plan # <<>>
    /\ \E reply \in Replies :
          LET request == Head(plan)
              pulled == request.op = "pull_full_properties"
              rest == IF pulled /\ cmd = "unmount_iso"
                      THEN unmount_iso_requests(hmc)
                      ELSE Tail(plan)
          IN  /\ requests' = Append(requests,
                                    Request(request.op, request.properties, reply))
              /\ IF reply # "ok"
                 THEN /\ pc' = "done"
                      /\ outcome' = RequestFailure(cmd, reply)
                      /\ plan' = <<>>
                      /\ image_fp' \in HandleAtReturn(image_fp)
                      /\ UNCHANGED <<hmc, partition, job>>
                 ELSE IF request.op \in {"start", "stop"}
                 THEN /\ job' = "running"
                      /\ plan' = rest
                      /\ IF wait_for_completion
                         THEN pc' = "waiting" /\ outcome' = outcome
                         ELSE pc' = "done" /\ outcome' = Completed(SuccessMessage(cmd))
                      /\ UNCHANGED <<hmc, partition, image_fp>>
                 ELSE /\ hmc' = Effect(hmc, request)
                      /\ partition' = IF pulled THEN hmc ELSE partition
                      /\ plan' = rest
                      /\ job' = job
                      /\ IF rest # <<>>
                         THEN /\ pc' = "running"
                              /\ UNCHANGED <<outcome, image_fp>>
                         ELSE /\ pc' = "done"
                              /\ outcome' =
                                     IF pulled /\ cmd = "unmount_iso"
                                     THEN Completed("No ISO image is mounted to Partition.")
                                     ELSE Completed(SuccessMessage(cmd))
                              /\ image_fp' \in HandleAtReturn(image_fp)
    /\ UNCHANGED <<cmd, options, before, list_vars>>

\* the HMC job of a start or stop ends, with or without success
JobEnds ==
    /\ job = "running"
    /\ \E result \in {"succeeded", "failed"} :
          /\ job' = result
          /\ hmc' = IF result = "failed" THEN hmc
                       ELSE SetItem(hmc, "status",
                                    IF cmd = "start" THEN "active" ELSE "stopped")
    /\ UNCHANGED <<pc, cmd, options, outcome, requests, partition, image_fp, plan,
                   before, list_vars>>

\* partition.start() and partition.stop() return when the job has ended
WaitReturn ==
    /\ pc = "waiting"
    /\ job # "running"
    /\ pc' = "done"
    /\ outcome' = IF job = "failed" THEN RequestFailure(cmd, "HTTPError")
                  ELSE Completed(SuccessMessage(cmd))
    /\ UNCHANGED <<cmd, options, requests, hmc, partition, image_fp, job, plan,
                   before, list_vars>>

NextLifecycle ==
    \/ PartitionShow
    \/ PartitionStart
    \/ PartitionStop
    \/ PartitionDelete
    \/ PartitionMountIso
    \/ PartitionUnmountIso
    \/ PartitionUpdateBoot
    \/ IssueRequest
    \/ JobEnds
    \/ WaitReturn
    \/ Exit

SpecLifecycle == InitLifecycle /\ [][NextLifecycle]_vars

(***************************************************************************)
(* Boot option groups, as the specification speaks of them                 *)
(***************************************************************************)
\* an option is supplied when click passes a value for it, '' included
Supplied(name) == name \in DOMAIN options

GroupMembers(g) ==
    CASE g = "storage" -> {"boot-storage-hba", "boot-storage-lun", "boot-storage-wwpn"}
      [] g = "network" -> {"boot-network-nic"}
      [] g = "ftp"     -> {"boot-ftp-host", "boot-ftp-username",
                           "boot-ftp-password", "boot-ftp-insfile"}
      [] g = "media"   -> {"boot-media-file"}
      [] g = "iso"     -> {"boot-iso"}

\* the groups of a command, highest priority first
GroupOrder(c) ==
    IF c = "update" THEN <<"storage", "network", "ftp", "media", "iso">>
    ELSE IF c = "create" THEN <<"ftp", "media">>
    ELSE <<>>

GroupSupplied(g) == \E n \in GroupMembers(g) : Supplied(n)

GroupComplete(g) == \A n \in GroupMembers(g) : Supplied(n)

NotSupplied(g) == {n \in GroupMembers(g) : ~Supplied(n)}

\* complete, and the adapter it names is attached to the partition
GroupSatisfied(g) ==
    /\ GroupComplete(g)
    /\ g = "storage" => options["boot-storage-hba"] \in DOMAIN AttachedHbas
    /\ g = "network" => options["boot-network-nic"] \in DOMAIN AttachedNics

\* the first group of the order that satisfies Test, or "none"
FirstGroup(order, Test(_)) ==
    IF \E i \in 1..Len(order) : Test(order[i])
    THEN order[CHOOSE i \in 1..Len(order) :
                   Test(order[i]) /\ \A j \in 1..(i - 1) : ~Test(order[j])]
    ELSE "none"

IncompleteMessage(g) ==
    IF g = "storage"
    THEN "Boot from FCP LUN specified, but misses the following options"
    ELSE "Boot from FTP server specified, but misses the following options"

\* the properties that configure booting, by family
FamilyProperties(g) ==
    CASE g = "storage" -> {"boot-storage-device", "boot-logical-unit-number",
                           "boot-world-wide-port-name"}
      [] g = "network" -> {"boot-network-device"}
      [] g = "ftp"     -> {"boot-ftp-host", "boot-ftp-username",
                           "boot-ftp-password", "boot-ftp-insfile"}
      [] g = "media"   -> {"boot-removable-media"}
      [] g = "iso"     -> {}

BootDeviceOf(g) ==
    CASE g = "storage" -> "storage-adapter"
      [] g = "network" -> "network-adapter"
      [] g = "ftp"     -> "ftp"
      [] g = "media"   -> "removable-media"
      [] g = "iso"     -> "iso-image"

AllGroups == {"storage", "network", "ftp", "media", "iso"}

BootPropertyNames ==
    {"boot-device"} \cup UNION {FamilyProperties(g) \cup GroupMembers(g) : g \in AllGroups}

\* the property set the command sent, empty when it sent none
SentProperties ==
    IF requests = <<>> THEN EmptyDict ELSE requests[1].properties

BootPart(properties) ==
    [n \in (DOMAIN properties) \cap BootPropertyNames |-> properties[n]]

\* what the specification has a satisfied group produce
GroupProperties(g) ==
    CASE g = "storage" ->
             [n \in {"boot-device"} \cup FamilyProperties(g) |->
                 CASE n = "boot-device" -> "storage-adapter"
                   [] n = "boot-storage-device" ->
                          AttachedHbas[options["boot-storage-hba"]]
                   [] n = "boot-logical-unit-number" -> options["boot-storage-lun"]
                   [] n = "boot-world-wide-port-name" -> options["boot-storage-wwpn"]]
      [] g = "network" ->
             [n \in {"boot-device"} \cup FamilyProperties(g) |->
                 IF n = "boot-device" THEN "network-adapter"
                 ELSE AttachedNics[options["boot-network-nic"]]]
      [] g = "ftp" ->
             [n \in {"boot-device"} \cup FamilyProperties(g) |->
                 IF n = "boot-device" THEN "ftp" ELSE options[n]]
      [] g = "media" ->
             [n \in {"boot-device"} \cup FamilyProperties(g) |->
                 IF n = "boot-device" THEN "removable-media"
                 ELSE options["boot-media-file"]]
      [] g = "iso" -> [n \in {"boot-device"} |-> "iso-image"]
      [] g = "none" -> EmptyDict

BootCommandDone == pc = "done" /\ cmd \in {"create", "update"}

(***************************************************************************)
(* C1: in create (FTP group) and update (FCP storage group, FTP group),    *)
(* when the group that is matched, the first one in priority order with a  *)
(* supplied member, lacks a required member, the command fails with a      *)
(* user-input error that names exactly the required members not supplied.  *)
(***************************************************************************)
C1_IncompleteGroupNamesMissing ==
    BootCommandDone =>
        LET g == FirstGroup(GroupOrder(cmd), GroupSupplied)
        IN  (g \in {"storage", "ftp"} /\ ~GroupComplete(g)) =>
                /\ outcome.kind = "user_error"
                /\ outcome.message = IncompleteMessage(g)
                /\ {outcome.names[i] : i \in 1..Len(outcome.names)} = NotSupplied(g)
                /\ Len(outcome.names) = Cardinality(NotSupplied(g))

(***************************************************************************)
(* C2: in update, whenever a property set results, its boot properties are *)
(* exactly those of the highest-priority complete group among the supplied *)
(* groups, in the order storage, network, FTP, removable media, ISO.       *)
(***************************************************************************)
C2_HighestCompleteGroupWins ==
    (pc = "done" /\ cmd = "update" /\ outcome.kind \in {"ok", "noop"}) =>
        LET g == FirstGroup(GroupOrder("update"), GroupComplete)
        IN  /\ g # "none" => GroupSatisfied(g)
            /\ BootPart(SentProperties) = GroupProperties(g)

(***************************************************************************)
(* C3: every property set sent by create or update names at most one boot  *)
(* family: 'boot-device' is there only when a boot option was supplied,    *)
(* every device-specific boot property belongs to the family 'boot-device' *)
(* names, and no boot option passes through the generic mapping.           *)
(***************************************************************************)
C3_AtMostOneBootFamily ==
    \A r \in 1..Len(requests) :
        LET properties == requests[r].properties
            names == DOMAIN properties
        IN  /\ "boot-device" \in names => \E g \in AllGroups : GroupSupplied(g)
            /\ \A g \in AllGroups :
                   (names \cap FamilyProperties(g) # {}) =>
                       /\ "boot-device" \in names
                       /\ properties["boot-device"] = BootDeviceOf(g)
            /\ \A g \in AllGroups :
                   names \cap (GroupMembers(g) \ FamilyProperties(g)) = {}

\* an FTP boot was sent although options of three other families were given
C3_Witness ==
    /\ pc = "done" /\ cmd = "update" /\ requests # <<>>
    /\ "boot-device" \in DOMAIN requests[1].properties
    /\ requests[1].properties["boot-device"] = "ftp"
    /\ Supplied("boot-media-file") /\ Supplied("boot-iso")
    /\ Supplied("boot-storage-lun")

(***************************************************************************)
(* C4: in create and update, when a group is satisfied, no group of lower  *)
(* priority is evaluated: no incomplete-group error is raised for it and   *)
(* the property set sent has none of its properties.                       *)
(***************************************************************************)
C4_LowerGroupsNotEvaluated ==
    BootCommandDone =>
        LET order == GroupOrder(cmd)
        IN  \A i \in 1..Len(order) : \A j \in (i + 1)..Len(order) :
                GroupSatisfied(order[i]) =>
                    /\ ~(/\ outcome.kind = "user_error"
                         /\ order[j] \in {"storage", "ftp"}
                         /\ outcome.message = IncompleteMessage(order[j]))
                    /\ DOMAIN SentProperties \cap FamilyProperties(order[j]) = {}
                    /\ "boot-device" \in DOMAIN SentProperties
                           => SentProperties["boot-device"] # BootDeviceOf(order[j])

(***************************************************************************)
(* The listing, as the specification speaks of it                          *)
(***************************************************************************)
UsageListed == cmd = "list" /\ (list_flags.ifl_usage \/ list_flags.cp_usage)

Listed == 1..Len(snapshot)

IsActive(i) == snapshot[i]["status"] = "active"

ActiveShared(i) == IsActive(i) /\ snapshot[i]["processor-mode"] = "shared"

ActiveDedicated(i) == IsActive(i) /\ snapshot[i]["processor-mode"] = "dedicated"

HasSample(i) == snapshot[i]["name"] \in DOMAIN metrics

\* the bag of partition i has the property, with this value
Has(i, name, value) ==
    /\ i <= Len(partitions)
    /\ name \in DOMAIN partitions[i]
    /\ partitions[i][name] = value

\* the bag of partition i has the property, and it is the number n / d
HasNumber(i, name, n, d) ==
    /\ i <= Len(partitions)
    /\ name \in DOMAIN partitions[i]
    /\ ~partitions[i][name].none
    /\ partitions[i][name].den > 0
    /\ partitions[i][name].num * d = n * partitions[i][name].den

\* the sum of a weight over a set of partitions, in no order
RECURSIVE WeightSum(_, _)
WeightSum(S, weight_name) ==
    IF S = {} THEN 0
    ELSE LET i == CHOOSE j \in S : TRUE
         IN  snapshot[i][weight_name] + WeightSum(S \ {i}, weight_name)

SharedWeight(weight_name) ==
    WeightSum({i \in Listed : ActiveShared(i)}, weight_name)

RECURSIVE Reversed(_)
Reversed(l) == IF l = <<>> THEN <<>> ELSE Append(Reversed(Tail(l)), Head(l))

(***************************************************************************)
(* C5: with a usage option, every active partition in shared mode has, for *)
(* IFL and for CP, capacity = total processors of the kind * its weight /  *)
(* the sum of the weights of that kind of all active shared partitions of  *)
(* the CPC; the sum is complete before any capacity is computed and the    *)
(* result does not depend on the order of the list (total IFL 10, weights  *)
(* 100 and 300 give 2.5 and 7.5).                                          *)
(***************************************************************************)
C5_SharedCapacityIsWeightShare ==
    UsageListed =>
        /\ \A i \in Listed : ActiveShared(i) =>
               /\ HasNumber(i, "ifl-capacity",
                            TotalIfls * snapshot[i]["initial-ifl-processing-weight"],
                            SharedWeight("initial-ifl-processing-weight"))
               /\ HasNumber(i, "cp-capacity",
                            TotalCps * snapshot[i]["initial-cp-processing-weight"],
                            SharedWeight("initial-cp-processing-weight"))
        /\ LET back == CpPass(IflPass(Reversed(snapshot), TotalIfls).parts,
                              TotalCps).parts
           IN  \A i \in Listed : \A name \in {"ifl-capacity", "cp-capacity"} :
                   Has(i, name, back[Len(snapshot) + 1 - i][name])
        /\ (/\ TotalIfls = 10
            /\ Len(snapshot) = 2
            /\ ActiveShared(1) /\ ActiveShared(2)
            /\ snapshot[1]["initial-ifl-processing-weight"] = 100
            /\ snapshot[2]["initial-ifl-processing-weight"] = 300)
           => /\ Has(1, "ifl-capacity", [none |-> FALSE, num |-> 5, den |-> 2])
              /\ Has(2, "ifl-capacity", [none |-> FALSE, num |-> 15, den |-> 2])

\* two active shared partitions of different IFL weights, the heavier first,
\* next to the capacities computed for them
C5_Witness ==
    /\ UsageListed /\ Len(snapshot) = 2
    /\ ActiveShared(1) /\ ActiveShared(2)
    /\ snapshot[1]["initial-ifl-processing-weight"]
           > snapshot[2]["initial-ifl-processing-weight"]
    /\ snapshot[1]["initial-cp-processing-weight"]
           = snapshot[2]["initial-cp-processing-weight"]
    /\ "ifl-capacity" \in DOMAIN partitions[2]
    /\ ~partitions[2]["ifl-capacity"].none
    /\ partitions[2]["ifl-capacity"] # partitions[1]["ifl-capacity"]

(***************************************************************************)
(* C6: with a usage option, every active partition in dedicated mode has   *)
(* ifl-capacity = its 'ifl-processors' and cp-capacity = its               *)
(* 'cp-processors', whatever its weights and whatever the weights, modes   *)
(* and statuses of the other partitions.                                   *)
(***************************************************************************)
C6_DedicatedCapacityIsProcessorCount ==
    UsageListed =>
        \A i \in Listed : ActiveDedicated(i) =>
            /\ Has(i, "ifl-capacity",
                   [none |-> FALSE, num |-> snapshot[i]["ifl-processors"], den |-> 1])
            /\ Has(i, "cp-capacity",
                   [none |-> FALSE, num |-> snapshot[i]["cp-processors"], den |-> 1])

\* a dedicated partition of 4 IFLs with the larger weight, listed after an
\* active shared partition
C6_Witness ==
    /\ UsageListed /\ Len(snapshot) = 2
    /\ ActiveDedicated(1) /\ ActiveShared(2)
    /\ snapshot[1]["ifl-processors"] = 4
    /\ snapshot[1]["initial-ifl-processing-weight"] > DEFAULT_PROCESSING_WEIGHT
    /\ Has(1, "ifl-capacity", [none |-> FALSE, num |-> 4, den |-> 1])

(***************************************************************************)
(* C7: with a usage option, every partition whose status is not 'active'   *)
(* has ifl-capacity None, cp-capacity None and processors-used None,       *)
(* whatever samples the metrics service returns, a sample for that         *)
(* partition included, and the listing completes.                          *)
(***************************************************************************)
C7_NotActiveYieldsNone ==
    UsageListed =>
        \A i \in Listed : ~IsActive(i) =>
            /\ outcome.kind = "ok"
            /\ Has(i, "ifl-capacity", PyNone)
            /\ Has(i, "cp-capacity", PyNone)
            /\ Has(i, "processors-used", PyNone)

(***************************************************************************)
(* C8: with a usage option, when the weights of the active shared          *)
(* partitions of a kind sum to zero, every capacity of that kind is None   *)
(* or the processor count of a dedicated partition, and the command never  *)
(* divides by zero.                                                        *)
(***************************************************************************)
C8_NoDivisionByZero ==
    UsageListed =>
        /\ outcome.message # "ZeroDivisionError"
        /\ SharedWeight("initial-ifl-processing-weight") = 0 =>
               \A i \in Listed :
                   \/ Has(i, "ifl-capacity", PyNone)
                   \/ /\ ActiveDedicated(i)
                      /\ HasNumber(i, "ifl-capacity", snapshot[i]["ifl-processors"], 1)
        /\ SharedWeight("initial-cp-processing-weight") = 0 =>
               \A i \in Listed :
                   \/ Has(i, "cp-capacity", PyNone)
                   \/ /\ ActiveDedicated(i)
                      /\ HasNumber(i, "cp-capacity", snapshot[i]["cp-processors"], 1)

\* a listing that completed although the weights sum to zero: one partition
\* is active and dedicated, the other is in shared mode and stopped
C8_Witness ==
    /\ UsageListed /\ Len(snapshot) = 2
    /\ SharedWeight("initial-ifl-processing-weight") = 0
    /\ SharedWeight("initial-cp-processing-weight") = 0
    /\ ActiveDedicated(1)
    /\ snapshot[2]["processor-mode"] = "shared" /\ ~IsActive(2)
    /\ outcome.kind = "ok"

(***************************************************************************)
(* C9: with a usage option, for every partition: without a usage sample    *)
(* processor-usage and processors-used are None; with one, processor-usage *)
(* is the raw metric value and processors-used = processor-usage / 100 *   *)
(* (ifl-capacity + cp-capacity), in either processor mode and whichever of *)
(* --ifl-usage and --cp-usage was given.                                   *)
(***************************************************************************)
C9_UsageFromSample ==
    UsageListed =>
        \A i \in Listed :
            IF HasSample(i)
            THEN LET usage == metrics[snapshot[i]["name"]]["processor-usage"]
                 IN  /\ HasNumber(i, "processor-usage", usage, 1)
                     /\ "ifl-capacity" \in DOMAIN partitions[i]
                     /\ "cp-capacity" \in DOMAIN partitions[i]
                     /\ ~partitions[i]["ifl-capacity"].none
                     /\ ~partitions[i]["cp-capacity"].none
                     /\ LET ifl == partitions[i]["ifl-capacity"]
                            cp == partitions[i]["cp-capacity"]
                        IN  HasNumber(i, "processors-used",
                                      usage * (ifl.num * cp.den + cp.num * ifl.den),
                                      100 * ifl.den * cp.den)
            ELSE /\ Has(i, "processor-usage", PyNone)
                 /\ Has(i, "processors-used", PyNone)

(***************************************************************************)
(* C10: the capacity computation is a function of the partition snapshots, *)
(* the metric samples and the CPC totals alone: a second run on the same   *)
(* inputs, over the bags the first run enriched, yields the same derived   *)
(* values and outcome, and no run changes a property the HMC returned.     *)
(***************************************************************************)
C10_ListIsIdempotent ==
    cmd = "list" =>
        /\ pc = "relisted" =>
               /\ partitions = first_run.partitions
               /\ outcome = first_run.outcome
        /\ Len(partitions) = Len(snapshot)
        /\ \A i \in Listed : \A name \in DOMAIN snapshot[i] :
               /\ UsageListed => name \in DOMAIN partitions[i]
               /\ name \in DOMAIN partitions[i]
                      => partitions[i][name] = snapshot[i][name]

\* a second run that completed, over two bags that hold derived values
C10_Witness ==
    /\ pc = "relisted" /\ UsageListed /\ Len(snapshot) = 2
    /\ outcome.kind = "ok"
    /\ ActiveShared(1) /\ HasSample(1)
    /\ "processors-used" \in DOMAIN first_run.partitions[1]
    /\ ~first_run.partitions[1]["processors-used"].none
    /\ ~partitions[1]["processors-used"].none

(***************************************************************************)
(* Update: the property set the command resolves from its options          *)
(***************************************************************************)
UpdateDone == pc = "done" /\ cmd = "update"

\* the properties named by the options, the boot group and the DNS servers
ResolvedProperties ==
    DnsServers(UpdateBoot(options,
                          options_to_properties(options, update_name_map)).properties,
               options)

(***************************************************************************)
(* C11: an update that ends without a user-input error sends nothing and   *)
(* reports that no properties were specified when the resolved property    *)
(* set is empty, and otherwise sends exactly one update_properties request *)
(* that carries exactly the resolved property set.                         *)
(***************************************************************************)
C11_UpdateSendsResolvedSetOnce ==
    (UpdateDone /\ outcome.kind # "user_error") =>
        IF DOMAIN ResolvedProperties = {}
        THEN /\ outcome.kind = "noop"
             /\ outcome.message = "No properties specified for updating partition."
             /\ requests = <<>>
        ELSE /\ outcome.kind \in {"ok", "remote_error"}
             /\ Len(requests) = 1
             /\ requests[1].op = "update_properties"
             /\ requests[1].properties = ResolvedProperties

\* an update whose only option is an empty FTP host resolves to nothing
C11_Witness ==
    /\ UpdateDone
    /\ DOMAIN options = {"boot-ftp-host"}
    /\ outcome.kind = "noop"
    /\ requests = <<>>

(***************************************************************************)
(* Lifecycle commands: what a finished command sent and found              *)
(***************************************************************************)
LifecycleDone(c) == pc = "done" /\ cmd = c

\* the command sent a request of this kind
Sent(op) == \E r \in 1..Len(requests) : requests[r].op = op

\* the HMC answered the r-th request of the command with success
Succeeded(r) == r <= Len(requests) /\ requests[r].result = "ok"

\* an image was mounted when the command began
MountedBefore == Truthy(before, "boot-iso-image-name")

(***************************************************************************)
(* C12: unmount-iso on an existing partition with no mounted ISO image     *)
(* ('boot-iso-image-name' null or empty) sends neither update_properties   *)
(* nor unmount_iso_image and leaves every property of the partition as it  *)
(* was; once the properties are retrieved it ends with the message that no *)
(* ISO image is mounted, which is a result and not an error.               *)
(***************************************************************************)
C12_UnmountWithoutImageIsNoOp ==
    (LifecycleDone("unmount_iso") /\ DOMAIN before # {} /\ ~MountedBefore) =>
        /\ ~Sent("update_properties")
        /\ ~Sent("unmount_iso_image")
        /\ hmc = before
        /\ Succeeded(1) =>
               outcome = Completed("No ISO image is mounted to Partition.")

\* nothing mounted (the name is empty) and the boot device is 'iso-image'
C12_Witness ==
    /\ LifecycleDone("unmount_iso")
    /\ "boot-iso-image-name" \in DOMAIN before
    /\ before["boot-iso-image-name"] = ""
    /\ before["boot-device"] = "iso-image"
    /\ Succeeded(1)
    /\ outcome.kind = "ok"

\* the operations of the requests sent so far, in order
RECURSIVE Ops(_)
Ops(reqs) == IF reqs = <<>> THEN <<>> ELSE <<Head(reqs).op>> \o Ops(Tail(reqs))

\* the command has retrieved the properties: its first request succeeded
Pulled == Len(requests) >= 1 /\ requests[1].op = "pull_full_properties"
          /\ requests[1].result = "ok"

(***************************************************************************)
(* C13: in unmount-iso on a partition with a mounted ISO image: when       *)
(* 'boot-device' is 'iso-image', the unmount request is sent only after    *)
(* the request that sets 'boot-device' to 'none' has been sent and has     *)
(* succeeded; when 'boot-device' is anything else, no update_properties    *)
(* request is sent, 'boot-device' keeps its value and the unmount request  *)
(* is the only one after the retrieval of the properties.                  *)
(***************************************************************************)
C13_BootResetBeforeUnmount ==
    (cmd = "unmount_iso" /\ Pulled /\ MountedBefore) =>
        IF before["boot-device"] = "iso-image"
        THEN /\ \A r \in 1..Len(requests) :
                    requests[r].op = "unmount_iso_image" =>
                        /\ r = 3
                        /\ requests[2] = Request("update_properties",
                                                 "boot-device" :> "none", "ok")
             /\ (pc = "done" /\ outcome.kind = "ok") =>
                    Ops(requests) = <<"pull_full_properties", "update_properties",
                                      "unmount_iso_image">>
        ELSE /\ ~Sent("update_properties")
             /\ hmc["boot-device"] = before["boot-device"]
             /\ pc = "done" =>
                    Ops(requests) = <<"pull_full_properties", "unmount_iso_image">>

\* the boot device was 'iso-image': reset, then unmount, both with success
C13_Witness ==
    /\ LifecycleDone("unmount_iso")
    /\ MountedBefore
    /\ before["boot-device"] = "iso-image"
    /\ Len(requests) = 3
    /\ requests[3] = Request("unmount_iso_image", EmptyDict, "ok")
    /\ hmc["boot-device"] = "none"
    /\ IsNone(hmc, "boot-iso-image-name")

(***************************************************************************)
(* C14: mount-iso on an existing partition sends one mount_iso_image       *)
(* request and after it, if and only if --boot was given, one              *)
(* update_properties request that sets 'boot-device' to 'iso-image'; the   *)
(* update is sent only after the mount has succeeded, and without --boot   *)
(* 'boot-device' keeps its value.                                          *)
(***************************************************************************)
C14_MountThenOptionalBoot ==
    (cmd = "mount_iso" /\ DOMAIN before # {}) =>
        /\ (pc = "done" /\ outcome.kind = "ok") => requests # <<>>
        /\ requests # <<>> => requests[1].op = "mount_iso_image"
        /\ Len(requests) <= 2
        /\ Len(requests) = 2 =>
               /\ options["boot"]
               /\ requests[1].result = "ok"
               /\ requests[2].op = "update_properties"
               /\ requests[2].properties = ("boot-device" :> "iso-image")
        /\ (pc = "done" /\ options["boot"] /\ Succeeded(1)) => Len(requests) = 2
        /\ ~options["boot"] => hmc["boot-device"] = before["boot-device"]

\* mount-iso --boot on a partition that booted from a storage adapter
C14_Witness ==
    /\ LifecycleDone("mount_iso")
    /\ options["boot"]
    /\ Len(requests) = 2
    /\ before["boot-device"] = "storage-adapter"
    /\ requests[2].result = "ok"
    /\ hmc["boot-device"] = "iso-image"
    /\ hmc["boot-iso-image-name"] = "new.iso"

(***************************************************************************)
(* C15: when a mount-iso command has ended, the file object it opened on   *)
(* the ISO image file is not open any more, whether the upload succeeded,  *)
(* the upload failed or the boot-device update after it failed.            *)
(***************************************************************************)
C15_ImageFileClosedAtEnd ==
    LifecycleDone("mount_iso") => image_fp # "open"

(***************************************************************************)
(* C16: start and stop wait for the HMC job: while the job is running no   *)
(* message is given; 'has been started' / 'has been stopped' is given only *)
(* when the job has ended with success; and when the job has failed the    *)
(* command ends with an error and without the success message.             *)
(***************************************************************************)
C16_StartStopWaitForJob ==
    cmd \in {"start", "stop"} =>
        /\ job = "running" => (pc = "waiting" /\ outcome = NoOutcome)
        /\ outcome.kind = "ok" =>
               /\ job = "succeeded"
               /\ outcome.message = SuccessMessage(cmd)
        /\ (pc = "done" /\ job = "failed") =>
               /\ outcome.kind = "remote_error"
               /\ outcome.message # SuccessMessage(cmd)

\* a stopped partition has been started and the message has been given
C16_Witness ==
    /\ LifecycleDone("start")
    /\ job = "succeeded"
    /\ before["status"] = "stopped"
    /\ hmc["status"] = "active"
    /\ outcome = Completed("Partition has been started.")

(***************************************************************************)
(* C17: a request of a lifecycle command that the HMC answers with an      *)
(* error ends the command: it is the last request the command sends (no    *)
(* retry, no further request), and the command ends with the error         *)
(* reported through raise_click_exception(), with its kind and message.    *)
(***************************************************************************)
C17_RemoteFailureWrappedOnce ==
    \A r \in 1..Len(requests) :
        requests[r].result # "ok" =>
            /\ r = Len(requests)
            /\ pc = "done"
            /\ outcome = RemoteError(requests[r].result)

(***************************************************************************)
(* C18: when create or update ends with a user-input error (an incomplete  *)
(* FCP storage or FTP group, an HBA or a NIC that is not attached to the   *)
(* partition), the command has sent no request, and the error that reports *)
(* an HBA or NIC that was not found names the HBA or NIC the user gave.    *)
(***************************************************************************)
C18_UserErrorBeforeAnyRequest ==
    (BootCommandDone /\ outcome.kind = "user_error") =>
        /\ requests = <<>>
        /\ outcome.message = "Could not find HBA" =>
               outcome.names = <<options["boot-storage-hba"]>>
        /\ outcome.message = "Could not find NIC" =>
               outcome.names = <<options["boot-network-nic"]>>
        /\ outcome.message \in
               {"Could not find HBA", "Could not find NIC",
                "Boot from FCP LUN specified, but misses the following options",
                "Boot from FTP server specified, but misses the following options"}

\* an update that also names DNS servers, with an HBA that is not attached
C18_Witness ==
    /\ UpdateDone
    /\ outcome = UserError("Could not find HBA", <<"hba2">>)
    /\ "ssc-dns-servers" \in DOMAIN options
    /\ requests = <<>>

(***************************************************************************)
(* C19: the property set create sends has 'ifl-processors' or              *)
(* 'cp-processors'; 'ifl-processors' is there without having been given,   *)
(* with the value 1, if and only if neither --ifl-processors nor           *)
(* --cp-processors was given; and an option that was given is sent with    *)
(* the value the user gave, 0 included.                                    *)
(***************************************************************************)
C19_ProcessorsDefaultedOnlyWhenNeitherGiven ==
    (LifecycleDone("create") /\ requests # <<>>) =>
        LET properties == requests[1].properties
            defaulted == "ifl-processors" \in DOMAIN properties
                         /\ ~Supplied("ifl-processors")
        IN  /\ requests[1].op = "create"
            /\ {"ifl-processors", "cp-processors"} \cap DOMAIN properties # {}
            /\ defaulted <=> (~Supplied("ifl-processors") /\ ~Supplied("cp-processors"))
            /\ defaulted => properties["ifl-processors"] = DEFAULT_IFL_PROCESSORS
            /\ \A n \in {"ifl-processors", "cp-processors"} :
                   IF Supplied(n)
                   THEN n \in DOMAIN properties /\ properties[n] = options[n]
                   ELSE n \in DOMAIN properties => (n = "ifl-processors" /\ defaulted)

\* --ifl-processors 0 alone: the 0 is sent, not the default
C19_Witness ==
    /\ LifecycleDone("create")
    /\ requests # <<>>
    /\ Supplied("ifl-processors") /\ options["ifl-processors"] = 0
    /\ ~Supplied("cp-processors")
    /\ requests[1].properties["ifl-processors"] = 0
    /\ "cp-processors" \notin DOMAIN requests[1].properties

(***************************************************************************)
(* C20: a command of two requests whose second request fails ends with     *)
(* that failure and keeps what the first request did: in unmount-iso,      *)
(* after a successful reset and a failed unmount 'boot-device' is 'none'   *)
(* and the image is still mounted; in mount-iso --boot, after a successful *)
(* mount and a failed update the image is mounted and 'boot-device' has    *)
(* the value it had before.  No further request is sent.                   *)
(***************************************************************************)
C20_PartialFailureNotRolledBack ==
    /\ (/\ LifecycleDone("unmount_iso")
        /\ Sent("update_properties") /\ Succeeded(2)
        /\ Sent("unmount_iso_image") /\ ~Succeeded(3)) =>
           /\ Len(requests) = 3
           /\ outcome.kind # "ok" /\ outcome.message = requests[3].result
           /\ hmc["boot-device"] = "none"
           /\ MountedBefore
           /\ Truthy(hmc, "boot-iso-image-name")
           /\ hmc["boot-iso-image-name"] = before["boot-iso-image-name"]
    /\ (/\ LifecycleDone("mount_iso")
        /\ options["boot"]
        /\ Succeeded(1)
        /\ Sent("update_properties") /\ ~Succeeded(2)) =>
           /\ Len(requests) = 2
           /\ outcome.kind # "ok" /\ outcome.message = requests[2].result
           /\ hmc["boot-device"] = before["boot-device"]
           /\ hmc["boot-iso-image-name"] = PathSplit(options["imagefile"])[2]

\* unmount-iso: the reset succeeded, the unmount failed
C20_Witness ==
    /\ LifecycleDone("unmount_iso")
    /\ MountedBefore
    /\ before["boot-device"] = "iso-image"
    /\ Len(requests) = 3
    /\ requests[2].result = "ok"
    /\ requests[3].result = "HTTPError"
    /\ hmc["boot-device"] = "none"
    /\ hmc["boot-iso-image-name"] = "old.iso"

(***************************************************************************)
(* The boot device and the mounted image                                   *)
(***************************************************************************)
\* a partition whose boot device is 'iso-image' has an ISO image mounted
BootIsoMounted(srv) ==
    (DOMAIN srv # {} /\ srv["boot-device"] = "iso-image") =>
        Truthy(srv, "boot-iso-image-name")

(***************************************************************************)
(* C21: no step of a mount-iso or unmount-iso command, failing requests    *)
(* included, leads from a partition state in which boot-device 'iso-image' *)
(* implies a mounted ISO image to one in which it does not, so the         *)
(* implication holds after any sequence of these commands; and a step of   *)
(* any command that does break the implication is an update with           *)
(* --boot-iso.                                                             *)
(***************************************************************************)
C21_BootIsoImpliesMounted ==
    [][ /\ (cmd' \in {"mount_iso", "unmount_iso"} /\ BootIsoMounted(hmc)) =>
               BootIsoMounted(hmc')
        /\ (BootIsoMounted(hmc) /\ ~BootIsoMounted(hmc')) =>
               (cmd' = "update" /\ "boot-iso" \in DOMAIN options') ]_vars

\* mount-iso --boot on a partition without an image: the mount succeeded,
\* the boot-device update failed
C21_Witness ==
    /\ LifecycleDone("mount_iso")
    /\ Len(requests) = 2
    /\ requests[2].result = "HTTPError"
    /\ IsNone(before, "boot-iso-image-name")
    /\ before["boot-device"] = "none"
    /\ BootIsoMounted(hmc)
    /\ hmc["boot-iso-image-name"] = "new.iso"

(***************************************************************************)
(* C22: with a usage option and all weights in 1..999, for IFL and for CP: *)
(* a partition that is active and in shared mode gets the quotient over a  *)
(* sum of weights that includes its own weight, so the divisor is at least *)
(* its own weight and at least 1; every other partition gets None or, when *)
(* active and dedicated, its processor count, without a division; and the  *)
(* command never ends with a division by zero, a CPC without any active    *)
(* shared partition included.                                              *)
(***************************************************************************)
C22_DivisorIncludesOwnWeight ==
    UsageListed =>
        /\ outcome.message # "ZeroDivisionError"
        /\ \A i \in Listed :
           \A k \in { <<"ifl-capacity", "initial-ifl-processing-weight",
                        "ifl-processors", TotalIfls>>,
                      <<"cp-capacity", "initial-cp-processing-weight",
                        "cp-processors", TotalCps>> } :
               LET own == snapshot[i][k[2]]
                   divisor == SharedWeight(k[2])
               IN  /\ own \in MIN_PROCESSING_WEIGHT..MAX_PROCESSING_WEIGHT
                   /\ IF ActiveShared(i)
                      THEN /\ divisor >= own
                           /\ divisor >= 1
                           /\ divisor = own + WeightSum({j \in Listed \ {i} :
                                                             ActiveShared(j)}, k[2])
                           /\ HasNumber(i, k[1], k[4] * own, divisor)
                      ELSE \/ Has(i, k[1], PyNone)
                           \/ /\ ActiveDedicated(i)
                              /\ HasNumber(i, k[1], snapshot[i][k[3]], 1)

\* the only active shared partition of the CPC, next to a stopped one: the
\* divisor is its own weight and it gets all the processors of the CPC
C22_Witness ==
    /\ UsageListed /\ Len(snapshot) = 2
    /\ ActiveShared(1)
    /\ snapshot[2]["processor-mode"] = "shared" /\ ~IsActive(2)
    /\ SharedWeight("initial-ifl-processing-weight")
           = snapshot[1]["initial-ifl-processing-weight"]
    /\ HasNumber(1, "ifl-capacity", TotalIfls, 1)
    /\ Has(2, "ifl-capacity", PyNone)

==============================================================================
